---- MODULE Spec2Model ----
(***************************************************************************)
(* Model of mypyc/irbuild/nonlocalcontrol.py: the chain of NonlocalControl *)
(* frames that lowers break, continue and return.                          *)
(*                                                                         *)
(* The frames call out to an IRBuilder.  The builder is recorded as the    *)
(* sequence of calls made on it (log), each stamped with the error handler *)
(* on top of the builder's error-handler stack when the call was made      *)
(* (ehs).  Objects (basic blocks, registers, values) are identified by     *)
(* natural numbers; None is 0.                                             *)
(***************************************************************************)
EXTENDS Integers, Sequences, FiniteSets, TLC

\* ------------------------------------------------------------------ bounds
MaxDepth == 3      \* frames pushed over the base frame
MaxCalls == 2      \* gen_break / gen_continue / gen_return calls

None == 0
NO_TRACEBACK_LINE_NO == -10000

\* The frames never inspect a returned value or a source line, they only
\* pass them on.  A return statement carries one of two values; the n-th
\* statement lowered is on line n.
Values == {1, 2}
LineOf(n) == n

\* Objects the caller creates for the frame at stack position p (p >= 2):
\* its blocks, registers and error handler.
ObjOf(p, k) == 10 * p + k
FirstFreshId == 10 * (MaxDepth + 3)

\* Objects allocated during the n-th gen_* call are named from FreshBase(n):
\* no call allocates more than three objects per frame.
FreshBase(n) == FirstFreshId * n

VARIABLES
  nonlocal_control,  \* builder.nonlocal_control: the frame chain, base first
  error_handlers,    \* builder.builder.error_handlers, initial <<None>>
  log,               \* builder calls made by the most recent gen_* call
  ehs,               \* ehs[k]: top of error_handlers when log[k] was made
  nextId,            \* identity of the next object allocated
  failed,            \* message of the assertion that stopped lowering, or ""
  call,              \* the most recent gen_* call, the state it started in,
                     \* the frames and handlers it returned with, and
                     \* whether the call before it was made on the same top frame
  ncalls

vars == <<nonlocal_control, error_handlers, log, ehs, nextId, failed, call, ncalls>>

Top(seq) == seq[Len(seq)]

\* ------------------------------------------------------------ the builder
\* s is the lowering state threaded through a call:
\*   [frames, error_handlers, log, ehs, nextId, failed]

Record(s, ev) ==
  [s EXCEPT !.log = Append(@, ev), !.ehs = Append(@, Top(s.error_handlers))]

\* builder.add(op)
add(s, op) == Record(s, op)

\* BasicBlock() / a fresh Value: the object is s.nextId
Fresh(s) == [s EXCEPT !.nextId = @ + 1]

\* builder.error(msg, line)
error(s, msg, line) == Record(s, <<"error", msg, line>>)

\* builder.activate_block(block)
activate_block(s, block) == Record(s, <<"activate_block", block>>)

\* builder.goto_and_activate(block): goto(block); activate_block(block)
goto_and_activate(s, block) == activate_block(add(s, <<"Goto", block>>), block)

\* builder.builder.push_error_handler(handler)
push_error_handler(s, handler) ==
  [Record(s, <<"push_error_handler", handler>>)
     EXCEPT !.error_handlers = Append(@, handler)]

\* builder.builder.pop_error_handler()
pop_error_handler(s) ==
  [Record(s, <<"pop_error_handler">>)
     EXCEPT !.error_handlers = SubSeq(@, 1, Len(@) - 1)]

\* builder.primitive_op(desc, [arg], line)
primitive_op(s, desc, arg, line) == Record(s, <<"primitive_op", desc, arg, line>>)

\* builder.alloc_temp(type): the register is s.nextId
alloc_temp(s) == Fresh(Record(s, <<"alloc_temp", s.nextId>>))

\* builder.assign(target, rvalue, line)
assign(s, target, rvalue, line) == Record(s, <<"assign", target, rvalue, line>>)

\* builder.read(target): a Value is returned as it is; an AssignmentTarget
\* is loaded into a new value.
ReadResult(s, target, spilled) == IF spilled THEN s.nextId ELSE target
read(s, target, spilled) ==
  LET s1 == Record(s, <<"read", target, ReadResult(s, target, spilled)>>)
  IN IF spilled THEN Fresh(s1) ELSE s1

\* ------------------------------------------------------------- the frames
Frame(kind, outer, cont, brk, target, ret_reg, saved, spilled) ==
  [kind |-> kind, outer |-> outer, continue_block |-> cont, break_block |-> brk,
   target |-> target, ret_reg |-> ret_reg, saved |-> saved, spilled |-> spilled]

BaseNonlocalControl == Frame("Base", 0, None, None, None, None, None, FALSE)
GeneratorNonlocalControl == Frame("Generator", 0, None, None, None, None, None, FALSE)
LoopNonlocalControl(outer, continue_block, break_block) ==
  Frame("Loop", outer, continue_block, break_block, None, None, None, FALSE)
TryFinallyNonlocalControl(target) ==
  Frame("TryFinally", 0, None, None, target, None, None, FALSE)
ExceptNonlocalControl(outer, saved, spilled) ==
  Frame("Except", outer, None, None, None, None, saved, spilled)
FinallyNonlocalControl(outer, ret_reg, saved) ==
  Frame("Finally", outer, None, None, None, ret_reg, saved, FALSE)

\* NonlocalControl.gen_break / gen_continue / gen_return, defined below by
\* the class of the frame.
RECURSIVE gen_break(_, _, _)
RECURSIVE gen_continue(_, _, _)
RECURSIVE gen_return(_, _, _, _)

\* class BaseNonlocalControl
\* Mutant: the base frame reports the break instead of asserting.
Mut_BaseBreakReported(s, line) ==
  error(s, "break outside of loop", line)

BaseNonlocalControl_gen_break(s, line) ==
  [s EXCEPT !.failed = "break outside of loop"]

BaseNonlocalControl_gen_continue(s, line) ==
  [s EXCEPT !.failed = "continue outside of loop"]

BaseNonlocalControl_gen_return(s, value, line) ==
  add(s, <<"Return", value>>)

\* Mutant: after its jump the loop frame passes the break on to its outer frame.
Mut_LoopBreakGoesOn(s, i, line) ==
  gen_break(add(s, <<"Goto", s.frames[i].break_block>>), s.frames[i].outer, line)

\* class LoopNonlocalControl
LoopNonlocalControl_gen_break(s, i, line) ==
  add(s, <<"Goto", s.frames[i].break_block>>)

\* Mutant: continue jumps to the break target.
Mut_LoopContinueToBreakBlock(s, i, line) ==
  add(s, <<"Goto", s.frames[i].break_block>>)

LoopNonlocalControl_gen_continue(s, i, line) ==
  add(s, <<"Goto", s.frames[i].continue_block>>)

\* class GeneratorNonlocalControl
\* Mutant: the exhaustion signal is raised under the current error handler.
Mut_GeneratorReturnKeepsHandler(s, value, line) ==
  LET loadint == s.nextId
      s1 == Fresh(add(s, <<"LoadInt", -1, loadint>>))
      s2 == assign(s1, "next_label_target", loadint, line)
      s4 == goto_and_activate(Fresh(s2), s2.nextId)
      s5 == primitive_op(s4, "set_stop_iteration_value", value, NO_TRACEBACK_LINE_NO)
  IN add(s5, <<"Unreachable">>)

\* Mutant: the generator base also ends with the plain function return.
Mut_GeneratorReturnAlsoReturns(s, value, line) ==
  LET loadint == s.nextId
      s1 == Fresh(add(s, <<"LoadInt", -1, loadint>>))
      s2 == assign(s1, "next_label_target", loadint, line)
      s3 == push_error_handler(s2, None)
      s4 == goto_and_activate(Fresh(s3), s3.nextId)
      s5 == primitive_op(s4, "set_stop_iteration_value", value, NO_TRACEBACK_LINE_NO)
      s6 == add(s5, <<"Return", value>>)
  IN pop_error_handler(s6)

GeneratorNonlocalControl_gen_return(s, value, line) ==
  LET loadint == s.nextId
      s1 == Fresh(add(s, <<"LoadInt", -1, loadint>>))
      s2 == assign(s1, "next_label_target", loadint, line)
      s3 == push_error_handler(s2, None)
      s4 == goto_and_activate(Fresh(s3), s3.nextId)
      s5 == primitive_op(s4, "set_stop_iteration_value", value, NO_TRACEBACK_LINE_NO)
      s6 == add(s5, <<"Unreachable">>)
  IN pop_error_handler(s6)

\* class TryFinallyNonlocalControl
\* Mutant: break inside try/finally jumps to the finally target.
Mut_TryFinallyBreakJumps(s, i, line) ==
  add(s, <<"Goto", s.frames[i].target>>)

TryFinallyNonlocalControl_gen_break(s, i, line) ==
  error(s, "break inside try/finally block is unimplemented", line)

TryFinallyNonlocalControl_gen_continue(s, i, line) ==
  error(s, "continue inside try/finally block is unimplemented", line)

\* Mutant: a new temporary on every return.
Mut_TryFinallyReturnAllocatesAlways(s, i, value, line) ==
  LET s1 == [alloc_temp(s) EXCEPT !.frames[i].ret_reg = s.nextId]
      s2 == add(s1, <<"Assign", s1.frames[i].ret_reg, value>>)
  IN add(s2, <<"Goto", s.frames[i].target>>)

\* Mutant: the frame keeps the returned value itself as its register.
Mut_TryFinallyReturnKeepsValue(s, i, value, line) ==
  LET s1 == [s EXCEPT !.frames[i].ret_reg = value]
      s2 == add(s1, <<"Assign", s1.frames[i].ret_reg, value>>)
  IN add(s2, <<"Goto", s.frames[i].target>>)

TryFinallyNonlocalControl_gen_return(s, i, value, line) ==
  LET s1 == IF s.frames[i].ret_reg = None
            THEN [alloc_temp(s) EXCEPT !.frames[i].ret_reg = s.nextId]
            ELSE s
      s2 == add(s1, <<"Assign", s1.frames[i].ret_reg, value>>)
  IN add(s2, <<"Goto", s.frames[i].target>>)

\* class ExceptNonlocalControl
ExceptNonlocalControl_gen_cleanup(s, i, line) ==
  LET f == s.frames[i]
      s1 == read(s, f.saved, f.spilled)
  IN primitive_op(s1, "restore_exc_info_op", ReadResult(s, f.saved, f.spilled), line)

\* Mutant: the return register is branched on without the None test.
Mut_FinallyCleanupBranchesOnNone(s, i, line) ==
  LET f == s.frames[i]
      t1 == s.nextId
      s1 == activate_block(add(Fresh(s), <<"Branch", f.ret_reg, t1, t1, "IS_ERROR">>), t1)
      target == s1.nextId
      cleanup == s1.nextId + 1
      s2 == add(Fresh(Fresh(s1)), <<"Branch", f.saved, target, cleanup, "IS_ERROR">>)
      s3 == activate_block(s2, cleanup)
      s4 == primitive_op(s3, "restore_exc_info_op", f.saved, line)
  IN goto_and_activate(s4, target)

\* Mutant: the branch on the return register has two different targets.
Mut_FinallyCleanupTwoTargets(s, i, line) ==
  LET f == s.frames[i]
      s1 == IF f.ret_reg # None
            THEN LET t1 == s.nextId
                     t2 == s.nextId + 1
                     a == add(Fresh(Fresh(s)), <<"Branch", f.ret_reg, t1, t2, "IS_ERROR">>)
                 IN activate_block(a, t1)
            ELSE s
      target == s1.nextId
      cleanup == s1.nextId + 1
      s2 == add(Fresh(Fresh(s1)), <<"Branch", f.saved, target, cleanup, "IS_ERROR">>)
      s3 == activate_block(s2, cleanup)
      s4 == primitive_op(s3, "restore_exc_info_op", f.saved, line)
  IN goto_and_activate(s4, target)

\* Mutant: the saved state is restored without the branch on it.
Mut_FinallyCleanupNoSavedBranch(s, i, line) ==
  LET f == s.frames[i]
      s1 == IF f.ret_reg # None
            THEN LET t1 == s.nextId
                     a == add(Fresh(s), <<"Branch", f.ret_reg, t1, t1, "IS_ERROR">>)
                 IN activate_block(a, t1)
            ELSE s
  IN primitive_op(s1, "restore_exc_info_op", f.saved, line)

\* Mutant: the two targets of the branch on the saved state are swapped.
Mut_FinallyCleanupRestoresOnError(s, i, line) ==
  LET f == s.frames[i]
      s1 == IF f.ret_reg # None
            THEN LET t1 == s.nextId
                     a == add(Fresh(s), <<"Branch", f.ret_reg, t1, t1, "IS_ERROR">>)
                 IN activate_block(a, t1)
            ELSE s
      target == s1.nextId
      cleanup == s1.nextId + 1
      s2 == add(Fresh(Fresh(s1)), <<"Branch", f.saved, cleanup, target, "IS_ERROR">>)
      s3 == activate_block(s2, cleanup)
      s4 == primitive_op(s3, "restore_exc_info_op", f.saved, line)
  IN goto_and_activate(s4, target)

\* class FinallyNonlocalControl
FinallyNonlocalControl_gen_cleanup(s, i, line) ==
  LET f == s.frames[i]
      s1 == IF f.ret_reg # None
            THEN LET target == s.nextId
                     a == add(Fresh(s), <<"Branch", f.ret_reg, target, target, "IS_ERROR">>)
                 IN activate_block(a, target)
            ELSE s
      target == s1.nextId
      cleanup == s1.nextId + 1
      s2 == add(Fresh(Fresh(s1)), <<"Branch", f.saved, target, cleanup, "IS_ERROR">>)
      s3 == activate_block(s2, cleanup)
      s4 == primitive_op(s3, "restore_exc_info_op", f.saved, line)
  IN goto_and_activate(s4, target)

\* class CleanupNonlocalControl: abstract gen_cleanup, dispatched on the class
gen_cleanup(s, i, line) ==
  IF s.frames[i].kind = "Except"
  THEN ExceptNonlocalControl_gen_cleanup(s, i, line)
  ELSE FinallyNonlocalControl_gen_cleanup(s, i, line)

\* Mutant: the outer frame's break is emitted before the cleanup.
Mut_CleanupBreakOuterFirst(s, i, line) ==
  gen_cleanup(gen_break(s, s.frames[i].outer, line), i, line)

CleanupNonlocalControl_gen_break(s, i, line) ==
  gen_break(gen_cleanup(s, i, line), s.frames[i].outer, line)

CleanupNonlocalControl_gen_continue(s, i, line) ==
  gen_continue(gen_cleanup(s, i, line), s.frames[i].outer, line)

\* Mutant: the outer frame's return is emitted before the cleanup.
Mut_CleanupReturnOuterFirst(s, i, value, line) ==
  gen_cleanup(gen_return(s, s.frames[i].outer, value, line), i, line)

CleanupNonlocalControl_gen_return(s, i, value, line) ==
  gen_return(gen_cleanup(s, i, line), s.frames[i].outer, value, line)

\* Mutant: a return inside a loop leaves the loop by its break target first.
Mut_LoopReturnBreaksFirst(s, i, value, line) ==
  gen_return(add(s, <<"Goto", s.frames[i].break_block>>), s.frames[i].outer, value, line)

LoopNonlocalControl_gen_return(s, i, value, line) ==
  gen_return(s, s.frames[i].outer, value, line)

\* NonlocalControl.gen_break / gen_continue / gen_return on frame i:
\* the method of the frame's class.
gen_break(s, i, line) ==
  CASE s.frames[i].kind \in {"Base", "Generator"} -> BaseNonlocalControl_gen_break(s, line)
    [] s.frames[i].kind = "Loop" -> LoopNonlocalControl_gen_break(s, i, line)
    [] s.frames[i].kind = "TryFinally" -> TryFinallyNonlocalControl_gen_break(s, i, line)
    [] OTHER -> CleanupNonlocalControl_gen_break(s, i, line)

gen_continue(s, i, line) ==
  CASE s.frames[i].kind \in {"Base", "Generator"} -> BaseNonlocalControl_gen_continue(s, line)
    [] s.frames[i].kind = "Loop" -> LoopNonlocalControl_gen_continue(s, i, line)
    [] s.frames[i].kind = "TryFinally" -> TryFinallyNonlocalControl_gen_continue(s, i, line)
    [] OTHER -> CleanupNonlocalControl_gen_continue(s, i, line)

gen_return(s, i, value, line) ==
  CASE s.frames[i].kind = "Base" -> BaseNonlocalControl_gen_return(s, value, line)
    [] s.frames[i].kind = "Generator" -> GeneratorNonlocalControl_gen_return(s, value, line)
    [] s.frames[i].kind = "Loop" -> LoopNonlocalControl_gen_return(s, i, value, line)
    [] s.frames[i].kind = "TryFinally" -> TryFinallyNonlocalControl_gen_return(s, i, value, line)
    [] OTHER -> CleanupNonlocalControl_gen_return(s, i, value, line)

\* ------------------------------------------------------------ the actions
NoCall == [op |-> "none", value |-> None, line |-> 0,
           frames |-> <<>>, error_handlers |-> <<>>, nextId |-> 0,
           frames_after |-> <<>>, error_handlers_after |-> <<>>,
           repeat |-> FALSE]

Init ==
  /\ nonlocal_control \in {<<BaseNonlocalControl>>, <<GeneratorNonlocalControl>>}
  /\ error_handlers = <<None>>
  /\ log = <<>>
  /\ ehs = <<>>
  /\ nextId = FreshBase(1)
  /\ failed = ""
  /\ call = NoCall
  /\ ncalls = 0

CanPush == failed = "" /\ Len(nonlocal_control) < MaxDepth + 1

\* handler: the error handler the caller installs for the construct's body,
\* or None when it installs none.
Push(frame, handler) ==
  /\ CanPush
  /\ nonlocal_control' = Append(nonlocal_control, frame)
  /\ error_handlers' = IF handler = None THEN error_handlers
                       ELSE Append(error_handlers, handler)
  /\ UNCHANGED <<log, ehs, nextId, failed, call, ncalls>>

\* The caller enters a loop: two new blocks, outer is the current top frame.
PushLoop ==
  LET p == Len(nonlocal_control) + 1
  IN Push(LoopNonlocalControl(p - 1, ObjOf(p, 1), ObjOf(p, 2)), None)

\* The caller enters the body of a try/finally statement, under the
\* statement's error handler.
PushTryFinally ==
  LET p == Len(nonlocal_control) + 1
  IN Push(TryFinallyNonlocalControl(ObjOf(p, 3)), ObjOf(p, 6))

\* The caller enters an except body, under its cleanup handler; the saved
\* exc_info is a Value, or in a generator (where values that live across a
\* yield are spilled to the environment) an AssignmentTarget.
PushExcept ==
  LET p == Len(nonlocal_control) + 1
      spilled == nonlocal_control[1].kind = "Generator"
  IN Push(ExceptNonlocalControl(p - 1, ObjOf(p, 5), spilled), ObjOf(p, 6))

\* The caller enters a finally body, under its cleanup handler, with or
\* without a return register.
PushFinally ==
  LET p == Len(nonlocal_control) + 1
  IN \E ret_reg \in {None, ObjOf(p, 4)} :
       Push(FinallyNonlocalControl(p - 1, ret_reg, ObjOf(p, 5)), ObjOf(p, 6))

CanCall == failed = "" /\ ncalls < MaxCalls

Start == [frames |-> nonlocal_control, error_handlers |-> error_handlers,
          log |-> <<>>, ehs |-> <<>>, nextId |-> nextId, failed |-> ""]

Finish(s, op, value, line) ==
  /\ nonlocal_control' = s.frames
  /\ error_handlers' = s.error_handlers
  /\ log' = s.log
  /\ ehs' = s.ehs
  /\ nextId' = FreshBase(ncalls + 2)
  /\ failed' = s.failed
  /\ call' = [op |-> op, value |-> value, line |-> line,
              frames |-> nonlocal_control, error_handlers |-> error_handlers,
              nextId |-> nextId,
              frames_after |-> s.frames, error_handlers_after |-> s.error_handlers,
              repeat |-> (call.op # "none" /\ Len(call.frames) = Len(nonlocal_control))]
  /\ ncalls' = ncalls + 1

\* The caller lowers a break statement: gen_break on the top frame.
GenBreak ==
  /\ CanCall
  /\ LET line == LineOf(ncalls + 1)
     IN Finish(gen_break(Start, Len(nonlocal_control), line), "break", None, line)

\* The caller lowers a continue statement: gen_continue on the top frame.
GenContinue ==
  /\ CanCall
  /\ LET line == LineOf(ncalls + 1)
     IN Finish(gen_continue(Start, Len(nonlocal_control), line), "continue", None, line)

\* The caller lowers a return statement: gen_return on the top frame.
GenReturn ==
  /\ CanCall
  /\ \E value \in Values :
       LET line == LineOf(ncalls + 1)
       IN Finish(gen_return(Start, Len(nonlocal_control), value, line), "return", value, line)

Next ==
  \/ PushLoop
  \/ PushTryFinally
  \/ PushExcept
  \/ PushFinally
  \/ GenBreak
  \/ GenContinue
  \/ GenReturn

Spec == Init /\ [][Next]_vars

\* ---------------------------------------------- reading the call's log
Called == call.op # "none"

\* The top frame at the call, the frames as they were, and as the call
\* left them.
TopIdx == Len(call.frames)
Pre(i) == call.frames[i]
Post(i) == call.frames_after[i]

IsCleanup(f) == f.kind \in {"Except", "Finally"}
IsBase(f) == f.kind \in {"Base", "Generator"}

\* The frame beneath the cleanup wrappers stacked at the top.
Beneath ==
  CHOOSE i \in 1..TopIdx :
    /\ ~IsCleanup(Pre(i))
    /\ \A j \in (i + 1)..TopIdx : IsCleanup(Pre(j))

NumWrappers == TopIdx - Beneath

\* The frame a return ends at: loops and cleanup wrappers pass it on.
ReturnFrame ==
  CHOOSE i \in 1..TopIdx :
    /\ Pre(i).kind \in {"Base", "Generator", "TryFinally"}
    /\ \A j \in (i + 1)..TopIdx : Pre(j).kind \in {"Loop", "Except", "Finally"}

\* The cleanup wrappers the call passes through.
Passed ==
  {p \in 1..TopIdx : /\ IsCleanup(Pre(p))
                     /\ p > (IF call.op = "return" THEN ReturnFrame ELSE Beneath)}

Tagged(tag) == {k \in 1..Len(log) : log[k][1] = tag}

IsFreshObj(x) == x >= call.nextId

RestoreIdx ==
  {k \in Tagged("primitive_op") : log[k][2] = "restore_exc_info_op"}

NthRestore(j) ==
  CHOOSE k \in RestoreIdx : Cardinality({m \in RestoreIdx : m <= k}) = j

\* log[k] is the restore call of frame f's cleanup, made with the call's line.
IsRestoreOf(k, f) ==
  /\ k \in RestoreIdx
  /\ log[k][4] = call.line
  /\ IF f.kind = "Except"
     THEN /\ k > 1
          /\ log[k - 1][1] = "read"
          /\ log[k - 1][2] = f.saved
          /\ log[k][3] = log[k - 1][3]
          /\ IF f.spilled THEN IsFreshObj(log[k][3]) ELSE log[k][3] = f.saved
     ELSE log[k][3] = f.saved

\* An event that cleanup code makes: no frame beneath a wrapper makes one.
CleanupEvent(ev) ==
  \/ ev[1] \in {"read", "Branch", "activate_block"}
  \/ ev[1] = "primitive_op" /\ ev[2] = "restore_exc_info_op"
  \/ ev[1] = "Goto" /\ IsFreshObj(ev[2])

\* Where the cleanup of the j-th wrapper from the top ends.
CleanupEnd(j) ==
  IF j = 0 THEN 0
  ELSE IF Pre(TopIdx - j + 1).kind = "Except" THEN NthRestore(j)
  ELSE NthRestore(j) + 2

\* ------------------------------------------------------------------ C1
\* C1: with N >= 0 cleanup wrappers stacked at the top of the chain, gen_break,
\* gen_continue and gen_return on the top frame emit every wrapper's cleanup
\* exactly once, innermost (last pushed) first, all of it before anything of
\* the frame beneath; an except wrapper's cleanup is exactly one read of its
\* saved state and one restore call passing it.
C1_CleanupOncePerExitInnermostFirst ==
  Called =>
    /\ Cardinality(RestoreIdx) >= NumWrappers
    /\ \A j \in 1..NumWrappers :
         LET f == Pre(TopIdx - j + 1) IN
         /\ IsRestoreOf(NthRestore(j), f)
         /\ Cardinality({k \in RestoreIdx : IsRestoreOf(k, f)}) = 1
         /\ f.kind = "Except" => NthRestore(j) = CleanupEnd(j - 1) + 2
         /\ \A k \in 1..CleanupEnd(j) : CleanupEvent(log[k])

C1_Witness ==
  /\ call.op = "return"
  /\ NumWrappers = 3
  /\ \E p, q \in 2..TopIdx : Pre(p).kind = "Except" /\ Pre(q).kind = "Finally"
  /\ Len(log) > CleanupEnd(3)

\* ------------------------------------------------------------------ C2
\* C2 as claimed: a break or continue that reaches the base frame is reported
\* through builder.error with the source line and lowering goes on.
C2_BaseBreakReportedAsError ==
  (call.op \in {"break", "continue"} /\ IsBase(Pre(Beneath))) =>
    /\ failed = ""
    /\ \E k \in Tagged("error") : log[k][3] = call.line

\* C2 amended: a break or continue that reaches the base frame fails the
\* frame's assertion ("break outside of loop" / "continue outside of loop"):
\* builder.error is not called, the base frame emits nothing after the
\* wrappers' cleanup, and lowering stops.
C2_BaseBreakFailsAssertion ==
  (call.op \in {"break", "continue"} /\ IsBase(Pre(Beneath))) =>
    /\ failed = (IF call.op = "break" THEN "break outside of loop"
                 ELSE "continue outside of loop")
    /\ Tagged("error") = {}
    /\ Len(log) = CleanupEnd(NumWrappers)
    /\ ~ENABLED Next

C2_Witness ==
  /\ call.op = "continue"
  /\ IsBase(Pre(Beneath))
  /\ NumWrappers = 1
  /\ failed # ""

\* ------------------------------------------------------------------ C3
\* The jumps out of the cleanup code: those to a block that the call did not
\* create itself.
JumpsOut == {k \in Tagged("Goto") : ~IsFreshObj(log[k][2])}

\* C3: with k >= 0 cleanup wrappers over a loop frame with targets
\* (continue_block, break_block), gen_break emits exactly one jump to
\* break_block and gen_continue exactly one to continue_block, as the last
\* operation, after the cleanup of all k wrappers; with k = 0 nothing else is
\* emitted.
C3_LoopBreakContinueJumpOnce ==
  (call.op \in {"break", "continue"} /\ Pre(Beneath).kind = "Loop") =>
    LET dest == IF call.op = "break" THEN Pre(Beneath).break_block
                ELSE Pre(Beneath).continue_block
    IN /\ failed = ""
       /\ Len(log) = CleanupEnd(NumWrappers) + 1
       /\ log[Len(log)] = <<"Goto", dest>>
       /\ JumpsOut = {Len(log)}
       /\ Cardinality(RestoreIdx) = NumWrappers
       /\ \A k \in RestoreIdx : k < Len(log)
       /\ NumWrappers = 0 => log = << <<"Goto", dest>> >>

C3_Witness ==
  /\ call.op = "break"
  /\ Pre(Beneath).kind = "Loop"
  /\ NumWrappers = 2
  /\ Pre(TopIdx).kind = "Finally"
  /\ Pre(TopIdx).ret_reg # None

\* ------------------------------------------------------------------ C4
\* The state the call started in.
PreState ==
  [frames |-> call.frames, error_handlers |-> call.error_handlers,
   log |-> <<>>, ehs |-> <<>>, nextId |-> call.nextId, failed |-> ""]

LoopTargets ==
  {Pre(p).break_block : p \in {q \in 1..TopIdx : Pre(q).kind = "Loop"}}
    \cup {Pre(p).continue_block : p \in {q \in 1..TopIdx : Pre(q).kind = "Loop"}}

\* C4: gen_return(v) on a loop frame emits exactly what gen_return(v) on its
\* outer frame emits, and no jump to a loop target; over a chain of loops and
\* cleanup wrappers on the base frame it ends with the one Return of v.
C4_LoopPassesReturnOn ==
  call.op = "return" =>
    /\ Pre(TopIdx).kind = "Loop" =>
         LET outer == gen_return(PreState, Pre(TopIdx).outer, call.value, call.line)
         IN /\ log = outer.log
            /\ ehs = outer.ehs
            /\ call.frames_after = outer.frames
    /\ \A k \in Tagged("Goto") : log[k][2] \notin LoopTargets
    /\ Pre(ReturnFrame).kind = "Base" =>
         /\ Len(log) > 0
         /\ log[Len(log)] = <<"Return", call.value>>
         /\ Tagged("Return") = {Len(log)}

C4_Witness ==
  /\ call.op = "return"
  /\ Pre(ReturnFrame).kind = "Base"
  /\ Pre(TopIdx).kind = "Loop"
  /\ TopIdx = 4
  /\ \E p \in 2..TopIdx : IsCleanup(Pre(p))

\* ------------------------------------------------------------------ C5
\* C5: every gen_return that ends at a try/finally frame leaves the frame
\* with a pending-return register: allocated by that call when the frame had
\* none, the one the frame already had otherwise; the call's last two
\* operations assign the value to it and jump to the finally target, and no
\* Return is emitted.
C5_PendingReturnAllocatedOnce ==
  (call.op = "return" /\ Pre(ReturnFrame).kind = "TryFinally") =>
    LET before == Pre(ReturnFrame).ret_reg
        after == Post(ReturnFrame).ret_reg
        n == Len(log)
    IN /\ after # None
       /\ n >= 2
       /\ IF before = None
          THEN /\ IsFreshObj(after)
               /\ Tagged("alloc_temp") = {n - 2}
               /\ log[n - 2] = <<"alloc_temp", after>>
          ELSE /\ after = before
               /\ Tagged("alloc_temp") = {}
       /\ log[n - 1] = <<"Assign", after, call.value>>
       /\ Tagged("Assign") = {n - 1}
       /\ log[n] = <<"Goto", Pre(ReturnFrame).target>>
       /\ JumpsOut = {n}
       /\ Tagged("Return") = {}

C5_Witness ==
  /\ call.op = "return"
  /\ Pre(TopIdx).kind = "TryFinally"
  /\ Pre(TopIdx).ret_reg # None
  /\ call.repeat
  /\ ncalls = 2

\* ------------------------------------------------------------------ C6
StopIdx ==
  {k \in Tagged("primitive_op") : log[k][2] = "set_stop_iteration_value"}

\* C6: a gen_return that ends at the generator base frame emits the
\* exhaustion signal once, in a new block activated while None is the active
\* error handler, and with None still active; the call returns with the
\* error-handler stack it started with.
C6_ExhaustionSignalUnderNoHandler ==
  (call.op = "return" /\ Pre(ReturnFrame).kind = "Generator") =>
    /\ Cardinality(StopIdx) = 1
    /\ \A k \in StopIdx :
         /\ ehs[k] = None
         /\ log[k][3] = call.value
         /\ log[k - 1][1] = "activate_block"
         /\ IsFreshObj(log[k - 1][2])
         /\ ehs[k - 1] = None
    /\ call.error_handlers_after = call.error_handlers

C6_Witness ==
  /\ call.op = "return"
  /\ Pre(ReturnFrame).kind = "Generator"
  /\ Top(call.error_handlers) # None
  /\ Cardinality({p \in Passed : Pre(p).kind = "Except"}) >= 2
  /\ StopIdx # {}

\* ------------------------------------------------------------------ C7
\* C7: gen_break and gen_continue on a try/finally frame make one call,
\* builder.error with the 'unimplemented' message and the source line, emit
\* nothing, and leave every frame as it was.
C7_TryFinallyBreakUnimplemented ==
  (call.op \in {"break", "continue"} /\ Pre(TopIdx).kind = "TryFinally") =>
    /\ log = << <<"error",
                  IF call.op = "break"
                  THEN "break inside try/finally block is unimplemented"
                  ELSE "continue inside try/finally block is unimplemented",
                  call.line>> >>
    /\ call.frames_after = call.frames
    /\ failed = ""

C7_Witness ==
  /\ call.op = "break"
  /\ Pre(TopIdx).kind = "TryFinally"
  /\ call.line = 2
  /\ Len(log) = 1

\* ------------------------------------------------------------------ C8
PassedFinally == {p \in Passed : Pre(p).kind = "Finally"}

BranchesOn(x) == {k \in Tagged("Branch") : log[k][2] = x}

\* C8: every branch a call emits tests the saved state or the (present)
\* return register of a finally frame it passes; a finally frame without a
\* return register adds one branch, on its saved state; one with a register
\* adds one more, an IS_ERROR branch on the register, before the branch on
\* the saved state and before the restore call.
C8_ReturnRegisterBranchOnlyIfPresent ==
  Called =>
    /\ \A k \in Tagged("Branch") :
         \E p \in PassedFinally :
           \/ log[k][2] = Pre(p).saved
           \/ Pre(p).ret_reg # None /\ log[k][2] = Pre(p).ret_reg
    /\ Cardinality(Tagged("Branch")) =
         Cardinality(PassedFinally)
           + Cardinality({p \in PassedFinally : Pre(p).ret_reg # None})
    /\ \A p \in PassedFinally :
         LET f == Pre(p) IN
         /\ Cardinality(BranchesOn(f.saved)) = 1
         /\ f.ret_reg # None =>
              /\ Cardinality(BranchesOn(f.ret_reg)) = 1
              /\ \A k \in BranchesOn(f.ret_reg) :
                   /\ log[k][5] = "IS_ERROR"
                   /\ \A m \in BranchesOn(f.saved) : k < m
                   /\ \A r \in RestoreIdx : IsRestoreOf(r, f) => k < r

C8_Witness ==
  /\ Called
  /\ \E p, q \in PassedFinally : Pre(p).ret_reg = None /\ Pre(q).ret_reg # None

\* ------------------------------------------------------------------ C9
\* C9 as claimed: the branch on the return register has two distinct
\* outcomes, and a reference release of the register is emitted on the
\* not-error one.
C9_ReturnRegisterReleasedOnNotError ==
  Called =>
    \A p \in PassedFinally : Pre(p).ret_reg # None =>
      \A k \in BranchesOn(Pre(p).ret_reg) :
        /\ log[k][3] # log[k][4]
        /\ \E m \in (k + 1)..Len(log) :
             log[m][1] = "DecRef" /\ log[m][2] = Pre(p).ret_reg

\* C9 amended: the branch on the return register names one new block as
\* both its targets; that block is activated at once and the next operation
\* is the branch on the saved state: gen_cleanup emits no reference release.
C9_ReturnRegisterBranchSingleTarget ==
  Called =>
    \A p \in PassedFinally : Pre(p).ret_reg # None =>
      \A k \in BranchesOn(Pre(p).ret_reg) :
        /\ log[k][3] = log[k][4]
        /\ IsFreshObj(log[k][3])
        /\ log[k + 1] = <<"activate_block", log[k][3]>>
        /\ log[k + 2][1] = "Branch"
        /\ log[k + 2][2] = Pre(p).saved
        /\ log[k + 2][3] # log[k][3]
        /\ log[k + 2][4] # log[k][3]

C9_Witness ==
  /\ call.op = "continue"
  /\ \E p \in PassedFinally : BranchesOn(Pre(p).ret_reg) # {}

\* ------------------------------------------------------------------ C10
\* The emitted operations that take x as an operand; a read of a Value emits
\* nothing, a read of a spilled target emits the load.
UsesOf(x) ==
  {k \in 1..Len(log) :
     \/ log[k][1] = "Branch" /\ log[k][2] = x
     \/ log[k][1] = "primitive_op" /\ log[k][3] = x
     \/ log[k][1] = "read" /\ log[k][2] = x /\ log[k][3] # x
     \/ log[k][1] = "Assign" /\ log[k][3] = x
     \/ log[k][1] = "assign" /\ log[k][3] = x
     \/ log[k][1] = "Return" /\ log[k][2] = x}

\* The operations that write register x (builder.assign is only ever made
\* on the generator's next_label_target, which is no register).
WritesOf(x) ==
  {k \in 1..Len(log) : log[k][1] \in {"Assign", "alloc_temp"} /\ log[k][2] = x}

\* C10 as claimed: each cleanup frame a call passes has its saved state used
\* by exactly one emitted operation.
C10_SavedStateUsedOncePerExit ==
  Called => \A p \in Passed : Cardinality(UsesOf(Pre(p).saved)) = 1

\* C10 amended: a call never writes the saved state of a frame it passes; an
\* except frame's saved state is read once, by the one operation that uses
\* it; a finally frame's saved state is used by exactly two operations, the
\* IS_ERROR branch and the restore call.
C10_SavedStateUsesPerExit ==
  Called =>
    \A p \in Passed :
      LET f == Pre(p) IN
      /\ WritesOf(f.saved) = {}
      /\ Post(p).saved = f.saved
      /\ IF f.kind = "Except"
         THEN /\ Cardinality(UsesOf(f.saved)) = 1
              /\ Cardinality({k \in Tagged("read") : log[k][2] = f.saved}) = 1
         ELSE /\ Cardinality(UsesOf(f.saved)) = 2
              /\ Cardinality(BranchesOn(f.saved)) = 1
              /\ Cardinality({k \in RestoreIdx : log[k][3] = f.saved}) = 1

C10_Witness ==
  /\ Called
  /\ call.repeat
  /\ \E p, q \in Passed :
       /\ Pre(p).kind = "Except"
       /\ Pre(p).spilled
       /\ Pre(q).kind = "Finally"

\* ------------------------------------------------------------------ C11
\* C11: a gen_return(v) that ends at the generator base frame finishes with
\* these builder calls, in this order: LoadInt(-1) and its assignment to
\* next_label_target (with the statement's line), push_error_handler(None),
\* the jump to and activation of a new block, the set_stop_iteration_value
\* call carrying v (with NO_TRACEBACK_LINE_NO), Unreachable, and last
\* pop_error_handler; it emits no Return.
C11_GeneratorReturnProtocolOrder ==
  (call.op = "return" /\ Pre(ReturnFrame).kind = "Generator") =>
    LET n == Len(log) IN
    /\ n >= 8
    /\ log[n - 7][1] = "LoadInt"
    /\ log[n - 7][2] = -1
    /\ IsFreshObj(log[n - 7][3])
    /\ Tagged("LoadInt") = {n - 7}
    /\ log[n - 6][1] = "assign"
    /\ log[n - 6][2] = "next_label_target"
    /\ log[n - 6][3] = log[n - 7][3]
    /\ log[n - 6][4] = call.line
    /\ log[n - 5][1] = "push_error_handler"
    /\ log[n - 5][2] = None
    /\ log[n - 4][1] = "Goto"
    /\ IsFreshObj(log[n - 4][2])
    /\ log[n - 4][2] # log[n - 7][3]
    /\ log[n - 3][1] = "activate_block"
    /\ log[n - 3][2] = log[n - 4][2]
    /\ ehs[n - 3] = None
    /\ StopIdx = {n - 2}
    /\ log[n - 2][3] = call.value
    /\ log[n - 2][4] = NO_TRACEBACK_LINE_NO
    /\ log[n - 1][1] = "Unreachable"
    /\ Tagged("Unreachable") = {n - 1}
    /\ log[n][1] = "pop_error_handler"
    /\ Tagged("pop_error_handler") = {n}
    /\ Tagged("push_error_handler") = {n - 5}
    /\ Top(call.error_handlers_after) = Top(call.error_handlers)
    /\ Tagged("Return") = {}
    /\ \A k \in 1..(n - 8) : CleanupEvent(log[k])

C11_Witness ==
  /\ call.op = "return"
  /\ Pre(ReturnFrame).kind = "Generator"
  /\ Pre(TopIdx).kind = "Loop"
  /\ PassedFinally # {}
  /\ call.value = 2
  /\ Len(log) > 8

\* ------------------------------------------------------------------ C12
\* C12: the cleanup of every finally frame a call passes emits one IS_ERROR
\* branch on the frame's saved state, with two different new blocks as its
\* targets; the block of the not-error outcome is activated next and holds
\* the restore call on the saved state, followed by a jump to the block of
\* the error outcome; that block, which the error outcome reaches directly,
\* is activated last and is the active block when the cleanup is done.
C12_FinallyRestoreOnlyIfNotError ==
  Called =>
    \A p \in PassedFinally :
      LET f == Pre(p) IN
      /\ Cardinality(BranchesOn(f.saved)) = 1
      /\ \A k \in BranchesOn(f.saved) :
           LET onError == log[k][3]
               notError == log[k][4]
           IN /\ log[k][5] = "IS_ERROR"
              /\ IsFreshObj(onError)
              /\ IsFreshObj(notError)
              /\ onError # notError
              /\ Len(log) >= k + 4
              /\ log[k + 1][1] = "activate_block"
              /\ log[k + 1][2] = notError
              /\ IsRestoreOf(k + 2, f)
              /\ {r \in RestoreIdx : log[r][3] = f.saved} = {k + 2}
              /\ log[k + 3][1] = "Goto"
              /\ log[k + 3][2] = onError
              /\ log[k + 4][1] = "activate_block"
              /\ log[k + 4][2] = onError
              /\ Len(log) > k + 4 => log[k + 5][1] # "activate_block"
              /\ \A m \in Tagged("activate_block") :
                   log[m][2] = onError => m = k + 4

C12_Witness ==
  /\ call.op = "break"
  /\ Cardinality(PassedFinally) = 2
  /\ failed = ""

\* ------------------------------------------------------------------ C13
\* The blocks and registers frame f holds.
ObjectsOf(f) ==
  {f.continue_block, f.break_block, f.target, f.ret_reg, f.saved} \ {None}

\* The objects a builder call names.
Operands(ev) ==
  CASE ev[1] \in {"Goto", "activate_block", "alloc_temp", "Return"} -> {ev[2]}
    [] ev[1] \in {"read", "Assign"} -> {ev[2], ev[3]}
    [] ev[1] = "Branch" -> {ev[2], ev[3], ev[4]}
    [] ev[1] \in {"primitive_op", "assign"} -> {ev[3]}
    [] OTHER -> {}

\* The calls that name an object of a frame beneath frame i.
AboutFramesBeneath(i) ==
  {k \in 1..Len(log) :
     \E q \in 1..(i - 1) : Operands(log[k]) \cap ObjectsOf(Pre(q)) # {}}

\* C13: when the first frame beneath the cleanup wrappers at the top is a
\* loop frame, gen_break / gen_continue jump to that loop's break_block /
\* continue_block and to no other block of any frame, make the restore calls
\* of exactly the wrappers above that loop, and make no call that names an
\* object of a frame beneath it, no Return, no error and no failed assertion.
C13_NearestLoopResolvesBreak ==
  (call.op \in {"break", "continue"} /\ Pre(Beneath).kind = "Loop") =>
    /\ \A k \in JumpsOut :
         log[k][2] = (IF call.op = "break" THEN Pre(Beneath).break_block
                      ELSE Pre(Beneath).continue_block)
    /\ JumpsOut # {}
    /\ \A k \in RestoreIdx :
         \E p \in (Beneath + 1)..TopIdx : IsRestoreOf(k, Pre(p))
    /\ AboutFramesBeneath(Beneath) = {}
    /\ Tagged("Return") = {}
    /\ Tagged("error") = {}
    /\ failed = ""
    /\ call.frames_after = call.frames

C13_Witness ==
  /\ call.op = "break"
  /\ Pre(Beneath).kind = "Loop"
  /\ NumWrappers = 1
  /\ Beneath = 3
  /\ Pre(2).kind = "Loop"

\* ------------------------------------------------------------------ C14
\* C14: with cleanup wrappers stacked over a try/finally frame, gen_return
\* emits the wrappers' cleanup, then (after the allocation of the register
\* if the frame has none) the assignment to the pending-return register and
\* the jump to the finally target; gen_break / gen_continue emit the
\* wrappers' cleanup and then report the 'unimplemented' error, with no jump
\* out of the cleanup code; in both cases no call names an object of a frame
\* beneath the try/finally frame and no Return is emitted.
C14_TryFinallyEndsDelegation ==
  (Called /\ Pre(Beneath).kind = "TryFinally") =>
    LET n == Len(log)
        done == CleanupEnd(NumWrappers)
    IN /\ Cardinality(RestoreIdx) = NumWrappers
       /\ \A k \in RestoreIdx : k <= done
       /\ AboutFramesBeneath(Beneath) = {}
       /\ Tagged("Return") = {}
       /\ failed = ""
       /\ IF call.op = "return"
          THEN /\ n = done + (IF Pre(Beneath).ret_reg = None THEN 3 ELSE 2)
               /\ log[n - 1][1] = "Assign"
               /\ log[n - 1][2] = Post(Beneath).ret_reg
               /\ log[n - 1][3] = call.value
               /\ log[n][1] = "Goto"
               /\ log[n][2] = Pre(Beneath).target
               /\ JumpsOut = {n}
               /\ Tagged("error") = {}
          ELSE /\ n = done + 1
               /\ log[n][1] = "error"
               /\ log[n][2] = (IF call.op = "break"
                               THEN "break inside try/finally block is unimplemented"
                               ELSE "continue inside try/finally block is unimplemented")
               /\ log[n][3] = call.line
               /\ Tagged("error") = {n}
               /\ JumpsOut = {}
               /\ call.frames_after = call.frames

C14_Witness ==
  /\ call.op = "continue"
  /\ Pre(Beneath).kind = "TryFinally"
  /\ Beneath = 3
  /\ NumWrappers = 1
  /\ Pre(2).kind \in {"Loop", "Finally"}

\* ------------------------------------------------------------------ C15
\* Frame g is frame f, but for a pending-return register that a try/finally
\* frame without one has got.
SameFrameOrRegisterSet(f, g) ==
  \/ g = f
  \/ /\ f.kind = "TryFinally"
     /\ f.ret_reg = None
     /\ g.ret_reg # None
     /\ g = [f EXCEPT !.ret_reg = g.ret_reg]

\* C15: no step removes or reorders a frame or changes a frame's class,
\* outer frame, loop targets, finally target or saved state; the one change
\* to a frame is that a try/finally frame without a pending-return register
\* gets one, after which the frame never changes again.
C15_FrameChainShapeIsFixed ==
  [][/\ Len(nonlocal_control') >= Len(nonlocal_control)
     /\ \A i \in 1..Len(nonlocal_control) :
          SameFrameOrRegisterSet(nonlocal_control[i], nonlocal_control'[i])]_vars

C15_Witness ==
  /\ call.op = "return"
  /\ ncalls = 2
  /\ Pre(ReturnFrame).kind = "TryFinally"
  /\ TopIdx > ReturnFrame
  /\ Pre(ReturnFrame).ret_reg # None
  /\ Post(ReturnFrame).ret_reg = Pre(ReturnFrame).ret_reg
  /\ call.value = 2

====
